---- MODULE Spec2Model ----
(***************************************************************************)
(* RoadPath (src/src/roadpath/path.py): a facade over the platform path    *)
(* primitives, modelled for the POSIX flavour (drive is always empty).     *)
(*                                                                         *)
(* A string is a sequence of one-character strings: "/a" is <<"/", "a">>.  *)
(* A Path value is the record [root, parts] the platform primitive keeps   *)
(* (_root, _parts): parts[1] is the root when there is one.                *)
(* A call that raises yields [err |-> "ValueError", val |-> <<>>].         *)
(***************************************************************************)
EXTENDS Integers, Sequences, FiniteSets, TLC

VARIABLES _parts, calls, args, res

vars == <<_parts, calls, args, res>>

(* ------------------------------ strings ------------------------------ *)

sep == "/"
curdir == <<".">>
pardir == <<".", ".">>
empty == <<>>

Ok(v) == [err |-> "", val |-> v]
Raise(e) == [err |-> e, val |-> <<>>]

StartsWith(s, pre) ==
    /\ Len(s) >= Len(pre)
    /\ SubSeq(s, 1, Len(pre)) = pre

Contains(s, c) == \E i \in 1..Len(s) : s[i] = c

(* s.find(c), 1-based; 0 when c does not occur *)
Find(s, c) ==
    IF Contains(s, c)
    THEN CHOOSE i \in 1..Len(s) : s[i] = c /\ \A j \in 1..(i - 1) : s[j] # c
    ELSE 0

(* s.rfind(c), 1-based; 0 when c does not occur *)
RFind(s, c) ==
    IF Contains(s, c)
    THEN CHOOSE i \in 1..Len(s) : s[i] = c /\ \A j \in (i + 1)..Len(s) : s[j] # c
    ELSE 0

(* s.split(sep) *)
RECURSIVE Split(_)
Split(s) ==
    LET i == Find(s, sep)
    IN IF i = 0 THEN <<s>>
       ELSE <<SubSeq(s, 1, i - 1)>> \o Split(SubSeq(s, i + 1, Len(s)))

(* sep.join(comps) *)
RECURSIVE JoinSep(_)
JoinSep(comps) ==
    IF Len(comps) = 0 THEN empty
    ELSE IF Len(comps) = 1 THEN comps[1]
    ELSE comps[1] \o <<sep>> \o JoinSep(Tail(comps))

(* s.lstrip(sep) *)
RECURSIVE LStrip(_)
LStrip(s) ==
    IF Len(s) > 0 /\ s[1] = sep THEN LStrip(Tail(s)) ELSE s

(* [x for x in comps if x and x != '.'] *)
RECURSIVE Significant(_)
Significant(comps) ==
    IF Len(comps) = 0 THEN <<>>
    ELSE IF comps[1] = empty \/ comps[1] = curdir THEN Significant(Tail(comps))
    ELSE <<comps[1]>> \o Significant(Tail(comps))

(* ------------------- the platform Path primitive --------------------- *)

(* _PosixFlavour.splitroot: exactly two leading separators are kept *)
splitroot(part) ==
    IF Len(part) > 0 /\ part[1] = sep
    THEN LET stripped_part == LStrip(part)
         IN IF Len(part) - Len(stripped_part) = 2
            THEN [root |-> <<sep, sep>>, rel |-> stripped_part]
            ELSE [root |-> <<sep>>, rel |-> stripped_part]
    ELSE [root |-> empty, rel |-> part]

(* a parse that never restarts at a rooted segment: the root of the first *)
(* segment, then the components of every segment                         *)
RECURSIVE AllComponents(_)
AllComponents(segs) ==
    IF segs = <<>> THEN <<>>
    ELSE Significant(Split(splitroot(segs[1]).rel)) \o AllComponents(Tail(segs))

parse_parts_no_restart(segs) ==
    LET root == IF segs = <<>> THEN empty ELSE splitroot(segs[1]).root
    IN [root |-> root,
        parts |-> (IF root # empty THEN <<root>> ELSE <<>>) \o AllComponents(segs)]

(* _Flavour.parse_parts: scan the segments last to first, stop at the     *)
(* first one that has a root                                              *)
RECURSIVE ParseFrom(_, _, _)
ParseFrom(segs, i, parsed) ==
    IF i = 0 THEN [root |-> empty, parts |-> parsed]
    ELSE IF segs[i] = empty THEN ParseFrom(segs, i - 1, parsed)
    ELSE LET sr == splitroot(segs[i])
             found == Significant(Split(sr.rel)) \o parsed
         IN IF sr.root # empty
            THEN [root |-> sr.root, parts |-> <<sr.root>> \o found]
            ELSE ParseFrom(segs, i - 1, found)

parse_parts(segs) == ParseFrom(segs, Len(segs), <<>>)

(* Path applied to the segments *)
Path(segs) == parse_parts(segs)

(* _Flavour.join_parsed_parts *)
join_parsed_parts(p1, p2) ==
    IF p2.root # empty THEN p2
    ELSE [root |-> p1.root, parts |-> p1.parts \o p2.parts]

(* PurePath._make_child: self / seg and self.joinpath of the segments *)
joinpath(p, segs) == join_parsed_parts(p, parse_parts(segs))

(* PurePath.__str__ *)
Str(p) ==
    IF p.parts = <<>> THEN curdir
    ELSE IF p.root # empty THEN p.root \o JoinSep(Tail(p.parts))
    ELSE JoinSep(p.parts)

is_absolute(p) == p.root # empty

(* PurePath._from_parsed_parts *)
from_parsed_parts(root, parts) == [root |-> root, parts |-> parts]

(* PurePath.name *)
Path_name(p) ==
    IF Len(p.parts) = (IF p.root # empty THEN 1 ELSE 0) THEN empty
    ELSE p.parts[Len(p.parts)]

(* PurePath.suffix: the last dot counts when it is neither the first nor  *)
(* the last character of the name                                         *)
Path_suffix(p) ==
    LET name == Path_name(p)
        i == RFind(name, ".")
    IN IF 1 < i /\ i < Len(name) THEN SubSeq(name, i, Len(name)) ELSE empty

(* PurePath.stem *)
Path_stem(p) ==
    LET name == Path_name(p)
        i == RFind(name, ".")
    IN IF 1 < i /\ i < Len(name) THEN SubSeq(name, 1, i - 1) ELSE name

(* PurePath.parent *)
Path_parent(p) ==
    IF Len(p.parts) = 1 /\ p.root # empty THEN p
    ELSE from_parsed_parts(p.root, SubSeq(p.parts, 1, Len(p.parts) - 1))

(* the ancestors idx..n of p, each with the last idx - shift parts cut *)
RECURSIVE Ancestors(_, _, _, _)
Ancestors(p, idx, n, shift) ==
    IF idx > n THEN <<>>
    ELSE <<[root |-> p.root,
            parts |-> SubSeq(p.parts, 1, Len(p.parts) - idx + shift)]>>
             \o Ancestors(p, idx + 1, n, shift)

(* a parents that starts at the path itself *)
Path_parents_from_self(p) ==
    Ancestors(p, 1, IF p.root # empty THEN Len(p.parts) - 1 ELSE Len(p.parts), 1)

(* PurePath.parents (_PathParents), nearest first: element idx (from 0)   *)
(* is the path without its last idx + 1 parts                             *)
Path_parents(p) ==
    Ancestors(p, 1, IF p.root # empty THEN Len(p.parts) - 1 ELSE Len(p.parts), 0)

(* PurePath.with_name *)
Path_with_name(p, name) ==
    IF Path_name(p) = empty THEN Raise("ValueError")
    ELSE LET parsed == parse_parts(<<name>>)
         IN IF \/ name = empty
               \/ name[Len(name)] = sep
               \/ parsed.root # empty
               \/ Len(parsed.parts) # 1
            THEN Raise("ValueError")
            ELSE Ok(from_parsed_parts(p.root,
                     Append(SubSeq(p.parts, 1, Len(p.parts) - 1), name)))

(* PurePath.with_stem *)
Path_with_stem(p, stem) == Path_with_name(p, stem \o Path_suffix(p))

(* a with_suffix that does not look at the receiver's name *)
Path_with_suffix_unchecked(p, suffix) ==
    IF Contains(suffix, sep) THEN Raise("ValueError")
    ELSE IF (suffix # empty /\ suffix[1] # ".") \/ suffix = curdir
    THEN Raise("ValueError")
    ELSE Ok([root |-> p.root,
             parts |-> Append(SubSeq(p.parts, 1, Len(p.parts) - 1),
                              (IF p.parts = <<>> THEN empty
                               ELSE p.parts[Len(p.parts)]) \o suffix)])

(* PurePath.with_suffix *)
Path_with_suffix(p, suffix) ==
    IF Contains(suffix, sep) THEN Raise("ValueError")
    ELSE IF (suffix # empty /\ suffix[1] # ".") \/ suffix = curdir
    THEN Raise("ValueError")
    ELSE LET name == Path_name(p)
             old_suffix == Path_suffix(p)
             new_name ==
                 IF old_suffix = empty THEN name \o suffix
                 ELSE SubSeq(name, 1, Len(name) - Len(old_suffix)) \o suffix
         IN IF name = empty THEN Raise("ValueError")
            ELSE Ok(from_parsed_parts(p.root,
                     Append(SubSeq(p.parts, 1, Len(p.parts) - 1), new_name)))

(* a relative_to that compares the parts only *)
Path_relative_to_parts_only(p, other) ==
    LET to == parse_parts(other)
        n == Len(to.parts)
    IN IF Len(p.parts) < n \/ SubSeq(p.parts, 1, n) # to.parts
       THEN Raise("ValueError")
       ELSE Ok([root |-> empty, parts |-> SubSeq(p.parts, n + 1, Len(p.parts))])

(* PurePath.relative_to: the drive (always empty) and the root count as   *)
(* two separate leading parts                                             *)
Path_relative_to(p, other) ==
    LET abs_parts ==
            IF p.root # empty THEN <<empty, p.root>> \o Tail(p.parts)
            ELSE p.parts
        to == parse_parts(other)
        to_abs_parts ==
            IF to.root # empty THEN <<empty, to.root>> \o Tail(to.parts)
            ELSE to.parts
        n == Len(to_abs_parts)
    IN IF (IF n = 0 THEN p.root # empty
           ELSE Len(abs_parts) < n \/ SubSeq(abs_parts, 1, n) # to_abs_parts)
       THEN Raise("ValueError")
       ELSE Ok(from_parsed_parts(IF n = 1 THEN p.root ELSE empty,
                                 SubSeq(abs_parts, n + 1, Len(abs_parts))))

(* ------------------------- os.path primitives ------------------------ *)

(* the loop of posixpath.normpath over comps[i..] *)
RECURSIVE NormComps(_, _, _, _)
NormComps(comps, i, new_comps, initial_slashes) ==
    IF i > Len(comps) THEN new_comps
    ELSE LET comp == comps[i]
         IN IF comp = empty \/ comp = curdir
            THEN NormComps(comps, i + 1, new_comps, initial_slashes)
            ELSE IF \/ comp # pardir
                    \/ (initial_slashes = 0 /\ new_comps = <<>>)
                    \/ (new_comps # <<>> /\ new_comps[Len(new_comps)] = pardir)
            THEN NormComps(comps, i + 1, Append(new_comps, comp), initial_slashes)
            ELSE IF new_comps # <<>>
            THEN NormComps(comps, i + 1,
                           SubSeq(new_comps, 1, Len(new_comps) - 1), initial_slashes)
            ELSE NormComps(comps, i + 1, new_comps, initial_slashes)

(* posixpath.normpath *)
normpath(path) ==
    IF path = empty THEN curdir
    ELSE LET initial_slashes ==
                 IF ~StartsWith(path, <<sep>>) THEN 0
                 ELSE IF StartsWith(path, <<sep, sep>>)
                         /\ ~StartsWith(path, <<sep, sep, sep>>) THEN 2
                 ELSE 1
             comps == NormComps(Split(path), 1, <<>>, initial_slashes)
             joined == [i \in 1..initial_slashes |-> sep] \o JoinSep(comps)
         IN IF joined = empty THEN curdir ELSE joined

(* the characters of the model in code-point order *)
Alphabet == <<".", "/", "a", "b", "c", "d", "e", "g", "m", "p", "r", "t", "x", "z">>

Ord(c) == CHOOSE i \in 1..Len(Alphabet) : Alphabet[i] = c

(* s <= t for Python strings *)
RECURSIVE StrLeq(_, _)
StrLeq(s, t) ==
    IF s = empty THEN TRUE
    ELSE IF t = empty THEN FALSE
    ELSE IF s[1] = t[1] THEN StrLeq(Tail(s), Tail(t))
    ELSE Ord(s[1]) < Ord(t[1])

(* l1 <= l2 for Python lists of strings *)
RECURSIVE ListLeq(_, _)
ListLeq(l1, l2) ==
    IF l1 = <<>> THEN TRUE
    ELSE IF l2 = <<>> THEN FALSE
    ELSE IF l1[1] = l2[1] THEN ListLeq(Tail(l1), Tail(l2))
    ELSE StrLeq(l1[1], l2[1])

Range(f) == {f[i] : i \in DOMAIN f}

(* the length of the longest common prefix of s1 <= s2 (the enumerate loop) *)
CommonLen(s1, s2) ==
    IF \E i \in 1..Len(s1) : s1[i] # s2[i]
    THEN (CHOOSE i \in 1..Len(s1) :
              s1[i] # s2[i] /\ \A j \in 1..(i - 1) : s1[j] = s2[j]) - 1
    ELSE Len(s1)

(* genericpath.commonprefix *)
os_commonprefix(m) ==
    IF m = <<>> THEN empty
    ELSE LET s1 == CHOOSE s \in Range(m) : \A t \in Range(m) : StrLeq(s, t)
             s2 == CHOOSE s \in Range(m) : \A t \in Range(m) : StrLeq(t, s)
         IN SubSeq(s1, 1, CommonLen(s1, s2))

(* posixpath.commonpath *)
os_commonpath(paths) ==
    IF paths = <<>> THEN Raise("ValueError")
    ELSE IF Cardinality({StartsWith(paths[i], <<sep>>) : i \in DOMAIN paths}) # 1
    THEN Raise("ValueError")
    ELSE LET isabs == StartsWith(paths[1], <<sep>>)
             split_paths == {Significant(Split(paths[i])) : i \in DOMAIN paths}
             s1 == CHOOSE s \in split_paths : \A t \in split_paths : ListLeq(s, t)
             s2 == CHOOSE s \in split_paths : \A t \in split_paths : ListLeq(t, s)
             common == SubSeq(s1, 1, CommonLen(s1, s2))
         IN Ok((IF isabs THEN <<sep>> ELSE empty) \o JoinSep(common))

(* ------------------------------ RoadPath ----------------------------- *)

(* RoadPath(path) for a string *)
RoadPath(path) == Path(<<path>>)

(* RoadPath(path) for a platform Path value: Path(path) parses the parts  *)
(* of its argument again                                                  *)
RoadPath_of(p) == Path(p.parts)

(* a result that may have raised, wrapped by RoadPath(...) *)
Wrapped(r) == IF r.err # "" THEN Raise(r.err) ELSE Ok(RoadPath_of(r.val))

(* RoadPath.__truediv__ *)
truediv(p, other) == RoadPath_of(joinpath(p, <<other>>))

(* RoadPath.__eq__ for two RoadPath values *)
RoadPath_eq(p, q) == p.parts = q.parts

(* RoadPath.parent *)
RoadPath_parent(p) == RoadPath_of(Path_parent(p))

(* [RoadPath(p) for p in ps] *)
RECURSIVE EachRoadPath(_)
EachRoadPath(ps) ==
    IF ps = <<>> THEN <<>>
    ELSE <<RoadPath_of(ps[1])>> \o EachRoadPath(Tail(ps))

(* RoadPath.parents *)
RoadPath_parents(p) == EachRoadPath(Path_parents(p))

(* RoadPath.normalize *)
RoadPath_normalize(p) == RoadPath(normpath(Str(p)))

(* RoadPath.relative_to for a string base *)
RoadPath_relative_to(p, base) == Wrapped(Path_relative_to(p, <<base>>))

(* RoadPath.with_name *)
RoadPath_with_name(p, name) == Wrapped(Path_with_name(p, name))

(* RoadPath.with_stem *)
RoadPath_with_stem(p, stem) == Wrapped(Path_with_stem(p, stem))

(* RoadPath.with_suffix *)
RoadPath_with_suffix(p, suffix) == Wrapped(Path_with_suffix(p, suffix))

(* RoadPath.join *)
RoadPath_join(p, segs) == RoadPath_of(joinpath(p, segs))

(* ---------------------------- free functions ------------------------- *)

join(segs) == Str(Path(segs))

split(path) == <<Str(Path_parent(Path(<<path>>))), Path_name(Path(<<path>>))>>

dirname(path) == Str(Path_parent(Path(<<path>>)))

(* a basename that drops the extension *)
basename_stem(path) == Path_stem(Path(<<path>>))

basename(path) == Path_name(Path(<<path>>))

splitext(path) ==
    LET p == Path(<<path>>)
        root == Path_with_suffix(p, empty)
    IN IF root.err # "" THEN Raise(root.err)
       ELSE Ok(<<Str(root.val), Path_suffix(p)>>)

normalize(path) == normpath(path)

(* relative(path, base): an empty base is replaced by os.getcwd() *)
relative(path, base, cwd) ==
    LET b == IF base # empty THEN base ELSE cwd
        r == Path_relative_to(Path(<<path>>), <<b>>)
    IN IF r.err # "" THEN Raise(r.err) ELSE Ok(Str(r.val))

(* a commonpath that compares characters *)
commonpath_charwise(paths) ==
    IF paths = <<>> THEN Raise("ValueError") ELSE Ok(os_commonprefix(paths))

commonpath(paths) == os_commonpath(paths)

commonprefix(paths) == os_commonprefix(paths)

(* ----------------------------- PathBuilder --------------------------- *)

MaxCalls == 4

S_tmp == <<"/", "t", "m", "p">>
S_app == <<"a", "p", "p">>
S_data == <<"d", "a", "t", "a">>
S_x == <<"/", "x">>

Bases == {empty, S_tmp}
Segments == {S_app, S_data, S_x}
AddArgs ==
    {<<>>} \cup {<<s>> : s \in Segments}
           \cup {<<s, t>> : s \in {S_app, S_x}, t \in {S_app, S_x}}

self == "self"

(* PathBuilder.__init__ *)
PathBuilder_init(base) == IF base # empty THEN <<base>> ELSE <<>>

(* PathBuilder.add: the list after self._parts.extend(parts) *)
add_parts(old, segs) == old \o segs

(* a parent() that drops the previous segment instead of appending ".." *)
parent_parts_pop(old) == SubSeq(old, 1, Len(old) - 1)

(* PathBuilder.parent: the list after self._parts.append("..") *)
parent_parts(old) == Append(old, pardir)

(* a build() that normalizes what it joins *)
build_value_normalized(segs) == RoadPath(normpath(Str(Path(segs))))

(* PathBuilder.build: the value returned *)
build_value(segs) == RoadPath_of(Path(segs))

(* a build() that consumes the accumulated segments *)
build_parts_clear(old) == <<>>

(* PathBuilder.build: the list it leaves behind *)
build_parts(old) == old

NoResult == [op |-> "none", err |-> "", val |-> <<>>]

(* one entry of the log of calls made on the builder *)
Call(op, a, r) == [op |-> op, args |-> a, ret |-> r]

(* builder(base) *)
BuilderInit ==
    /\ \E base \in Bases :
          /\ _parts = PathBuilder_init(base)
          /\ calls = <<Call("builder", <<base>>, self)>>
    /\ args = <<>>
    /\ res = NoResult

PathBuilder_add ==
    /\ calls # <<>>
    /\ Len(calls) <= MaxCalls
    /\ \E segs \in AddArgs :
          /\ _parts' = add_parts(_parts, segs)
          /\ calls' = Append(calls, Call("add", segs, self))
    /\ UNCHANGED <<args, res>>

PathBuilder_parent ==
    /\ calls # <<>>
    /\ Len(calls) <= MaxCalls
    /\ _parts' = parent_parts(_parts)
    /\ calls' = Append(calls, Call("parent", <<>>, self))
    /\ UNCHANGED <<args, res>>

PathBuilder_build ==
    /\ calls # <<>>
    /\ Len(calls) <= MaxCalls
    /\ calls' = Append(calls, Call("build", <<>>, build_value(_parts)))
    /\ _parts' = build_parts(_parts)
    /\ UNCHANGED <<args, res>>

(* PathBuilder.__str__ *)
PathBuilder_str ==
    /\ calls # <<>>
    /\ Len(calls) <= MaxCalls
    /\ calls' = Append(calls, Call("str", <<>>, Str(build_value(_parts))))
    /\ _parts' = build_parts(_parts)
    /\ UNCHANGED <<args, res>>

(* --------------------- calls of the library API ---------------------- *)

MaxLen == 4
MaxLenP == 3
MaxLenQ == 2

Chars == {"/", ".", "a", "b"}

(* every string over Chars of length at most n *)
RECURSIVE Strs(_)
Strs(n) ==
    IF n = 0 THEN {<<>>}
    ELSE LET S == Strs(n - 1)
         IN S \cup {Append(s, c) : s \in S, c \in Chars}

S_a == <<"a">>
S_abs_b == <<"/", "b">>
S_a_b == <<"a", "/", "b">>
S_slashes == <<"/", "/">>
S_abc == <<"/", "a", "/", "b", "/", "c">>
S_abs_a == <<"/", "a">>
S_abs_z == <<"/", "z">>
S_ab_c == <<"/", "a", "b", "/", "c">>
S_abd_e == <<"/", "a", "b", "d", "/", "e">>
S_targz == <<"/", "a", "/", "c", ".", "t", "a", "r", ".", "g", "z">>

JoinSegs == {S_a, S_abs_b, empty, S_slashes, S_a_b, pardir}

Examples ==
    {<<S_abc, S_abs_a>>, <<S_abc, S_abs_z>>, <<S_ab_c, S_abd_e>>,
     <<S_targz>>, <<>>}

Inputs ==
    {<<p>> : p \in Strs(MaxLen)}
        \cup {<<p, q>> : p \in Strs(MaxLenP), q \in Strs(MaxLenQ)}
        \cup {<<p, q, r>> : p \in JoinSegs, q \in JoinSegs, r \in JoinSegs}
        \cup Examples

Cwds == {<<"/">>, S_abs_a}

Result(op, r) == [op |-> op, err |-> r.err, val |-> r.val]

LibInit ==
    /\ args \in Inputs
    /\ res = NoResult
    /\ _parts = <<>>
    /\ calls = <<>>

Lib(n) == calls = <<>> /\ Len(args) = n /\ UNCHANGED <<_parts, calls, args>>

call_dirname == Lib(1) /\ res' = Result("dirname", Ok(dirname(args[1])))

call_basename == Lib(1) /\ res' = Result("basename", Ok(basename(args[1])))

call_split == Lib(1) /\ res' = Result("split", Ok(split(args[1])))

call_splitext == Lib(1) /\ res' = Result("splitext", splitext(args[1]))

call_normalize == Lib(1) /\ res' = Result("normalize", Ok(normalize(args[1])))

call_parent ==
    Lib(1) /\ res' = Result("parent", Ok(RoadPath_parent(RoadPath(args[1]))))

call_parents ==
    Lib(1) /\ res' = Result("parents", Ok(RoadPath_parents(RoadPath(args[1]))))

call_truediv ==
    Lib(2) /\ res' = Result("truediv", Ok(truediv(RoadPath(args[1]), args[2])))

call_relative_to ==
    Lib(2) /\ res' = Result("relative_to",
                            RoadPath_relative_to(RoadPath(args[1]), args[2]))

call_relative ==
    /\ Lib(2)
    /\ \E cwd \in Cwds :
          res' = [op |-> "relative", cwd |-> cwd,
                  err |-> relative(args[1], args[2], cwd).err,
                  val |-> relative(args[1], args[2], cwd).val]

call_with_name ==
    Lib(2) /\ res' = Result("with_name",
                            RoadPath_with_name(RoadPath(args[1]), args[2]))

call_with_stem ==
    Lib(2) /\ res' = Result("with_stem",
                            RoadPath_with_stem(RoadPath(args[1]), args[2]))

call_with_suffix ==
    Lib(2) /\ res' = Result("with_suffix",
                            RoadPath_with_suffix(RoadPath(args[1]), args[2]))

call_join ==
    Lib(Len(args)) /\ res' = Result("join", Ok(join(args)))

call_RoadPath_join ==
    /\ Lib(Len(args))
    /\ Len(args) >= 1
    /\ res' = Result("RoadPath.join",
                     Ok(RoadPath_join(RoadPath(args[1]), Tail(args))))

call_commonpath ==
    Lib(Len(args)) /\ res' = Result("commonpath", commonpath(args))

call_commonprefix ==
    Lib(Len(args)) /\ res' = Result("commonprefix", Ok(commonprefix(args)))

Init == BuilderInit \/ LibInit

Next ==
    \/ PathBuilder_add
    \/ PathBuilder_parent
    \/ PathBuilder_build
    \/ PathBuilder_str
    \/ call_dirname
    \/ call_basename
    \/ call_split
    \/ call_splitext
    \/ call_normalize
    \/ call_parent
    \/ call_parents
    \/ call_truediv
    \/ call_relative_to
    \/ call_relative
    \/ call_with_name
    \/ call_with_stem
    \/ call_with_suffix
    \/ call_join
    \/ call_RoadPath_join
    \/ call_commonpath
    \/ call_commonprefix

Spec == Init /\ [][Next]_vars

(* ============================ properties ============================ *)

IsPrefix(s, t) == Len(s) <= Len(t) /\ SubSeq(t, 1, Len(s)) = s

(* the segments a log of builder calls asks for, in call order *)
RECURSIVE SegmentsOf(_)
SegmentsOf(cs) ==
    IF cs = <<>> THEN <<>>
    ELSE LET c == cs[Len(cs)]
             front == SegmentsOf(SubSeq(cs, 1, Len(cs) - 1))
         IN IF c.op = "builder"
            THEN (IF c.args[1] # empty THEN <<c.args[1]>> ELSE <<>>)
            ELSE IF c.op = "add" THEN front \o c.args
            ELSE IF c.op = "parent" THEN Append(front, pardir)
            ELSE front

Mutating(c) == c.op \in {"add", "parent"}

(* C1: after any sequence of builder calls the segment list is the base   *)
(* (when non-empty), then every segment passed to add() and one ".." per  *)
(* parent() call, in call order; add() and parent() return the builder.   *)
C1_SegmentsInCallOrder ==
    calls # <<>> =>
        /\ _parts = SegmentsOf(calls)
        /\ \A i \in 1..Len(calls) :
              Mutating(calls[i]) => calls[i].ret = self

(* a non-empty base, an add of two segments, then parent(): all kept *)
C1_Witness ==
    /\ Len(calls) = 3
    /\ calls[1].args = <<S_tmp>>
    /\ calls[2].op = "add" /\ Len(calls[2].args) = 2
    /\ calls[3].op = "parent"
    /\ Len(_parts) = 4

(* C2: build() and str() leave the segment list as it was; two builds     *)
(* with no add()/parent() between them return equal values; every build   *)
(* returns the join of all segments accumulated since the builder was     *)
(* created.                                                               *)
C2_BuildKeepsSegments ==
    \A j \in 1..Len(calls) :
        LET before == SubSeq(calls, 1, j - 1)
        IN /\ calls[j].op = "build" =>
                 calls[j].ret = RoadPath_join(RoadPath(empty), SegmentsOf(before))
           /\ calls[j].op = "str" =>
                 calls[j].ret = join(SegmentsOf(before))
           /\ (calls[j].op \in {"build", "str"} /\ j = Len(calls)) =>
                 _parts = SegmentsOf(before)
           /\ \A i \in 1..(j - 1) :
                 (/\ calls[i].op = "build"
                  /\ calls[j].op = "build"
                  /\ \A k \in (i + 1)..(j - 1) : ~Mutating(calls[k]))
                     => calls[j].ret = calls[i].ret

(* build, add, build: the second build sees the segments of the first too *)
C2_Witness ==
    /\ Len(calls) = 5
    /\ calls[2].op = "add" /\ calls[2].args = <<S_app>>
    /\ calls[3].op = "build"
    /\ calls[4].op = "add" /\ calls[4].args = <<S_data>>
    /\ calls[5].op = "build"
    /\ calls[5].ret # calls[3].ret
    /\ _parts = <<S_tmp, S_app, S_data>>

S_tmp_data == <<"/", "t", "m", "p", "/", "d", "a", "t", "a">>
S_tmp_app_up_data ==
    <<"/", "t", "m", "p", "/", "a", "p", "p", "/", ".", ".", "/", "d", "a", "t", "a">>

(* builder("/tmp").add("app").parent().add("data").build() has been called *)
C3_Chain ==
    /\ Len(calls) = 5
    /\ calls[1].args = <<S_tmp>>
    /\ calls[2].op = "add" /\ calls[2].args = <<S_app>>
    /\ calls[3].op = "parent"
    /\ calls[4].op = "add" /\ calls[4].args = <<S_data>>
    /\ calls[5].op = "build"

(* C3 as claimed: the chain builds a value equal to RoadPath("/tmp/data") *)
C3_Original ==
    C3_Chain => RoadPath_eq(calls[5].ret, RoadPath(S_tmp_data))

(* C3 as amended: the chain builds RoadPath("/tmp/app/../data"), which is *)
(* not equal to RoadPath("/tmp/data"); only normalize() makes them equal. *)
C3_BuildKeepsDotDot ==
    C3_Chain =>
        /\ RoadPath_eq(calls[5].ret, RoadPath(S_tmp_app_up_data))
        /\ ~RoadPath_eq(calls[5].ret, RoadPath(S_tmp_data))
        /\ RoadPath_eq(RoadPath_normalize(calls[5].ret), RoadPath(S_tmp_data))

C3_Witness == C3_Chain /\ Str(calls[5].ret) = S_tmp_app_up_data

(* ---------------------------- joining (C4) --------------------------- *)

IsAbs(seg) == seg # empty /\ seg[1] = sep

(* the accumulated path after one more segment: an absolute segment       *)
(* replaces it, any other appends its components                          *)
Appended(acc, seg) ==
    IF IsAbs(seg) THEN RoadPath(seg)
    ELSE [root |-> acc.root, parts |-> acc.parts \o Significant(Split(seg))]

RECURSIVE Accumulate(_)
Accumulate(segs) ==
    IF segs = <<>> THEN [root |-> empty, parts |-> <<>>]
    ELSE Appended(Accumulate(SubSeq(segs, 1, Len(segs) - 1)), segs[Len(segs)])

(* the segments from the last absolute one on (all of them when none is)  *)
FromLastAbs(segs) ==
    IF \E i \in 1..Len(segs) : IsAbs(segs[i])
    THEN LET k == CHOOSE i \in 1..Len(segs) :
                      IsAbs(segs[i]) /\ \A j \in (i + 1)..Len(segs) : ~IsAbs(segs[j])
         IN SubSeq(segs, k, Len(segs))
    ELSE segs

(* C4: "/", RoadPath.join, join and PathBuilder.build append the segments *)
(* in order, an absolute segment discarding everything before it, so the  *)
(* result is the join of the last absolute segment and those after it.    *)
C4_JoinSemantics ==
    /\ res.op = "truediv" =>
          /\ res.val = Accumulate(args)
          /\ IsAbs(args[2]) => res.val = RoadPath(args[2])
    /\ res.op = "RoadPath.join" =>
          /\ res.val = Accumulate(args)
          /\ res.val = RoadPath_join(RoadPath(FromLastAbs(args)[1]),
                                     Tail(FromLastAbs(args)))
    /\ res.op = "join" =>
          /\ res.val = Str(Accumulate(args))
          /\ res.val = join(FromLastAbs(args))
    /\ \A j \in 1..Len(calls) :
          calls[j].op = "build" =>
              LET segs == SegmentsOf(SubSeq(calls, 1, j - 1))
              IN /\ calls[j].ret = Accumulate(segs)
                 /\ calls[j].ret = build_value(FromLastAbs(segs))

S_b_a_b == <<"/", "b", "/", "a", "/", "b">>

(* RoadPath("a").join("/b", "a/b") is /b/a/b: the receiver is discarded *)
C4_Witness ==
    /\ res.op = "RoadPath.join"
    /\ args = <<S_a, S_abs_b, S_a_b>>
    /\ Str(res.val) = S_b_a_b

(* -------------------------- relative_to (C5) ------------------------- *)

RelOps == {"relative_to", "relative"}

(* str of a RoadPath result, the string itself for a free function *)
AsStr(op, v) == IF op = "relative" THEN v ELSE Str(v)

(* C5 as claimed: relative_to(base), and relative(path, base) for a given *)
(* base, return a value exactly when the components of base are a prefix *)
(* of the components of the path, the value being the rest.              *)
C5_Original ==
    (res.op = "relative_to" \/ (res.op = "relative" /\ args[2] # empty)) =>
        LET p == RoadPath(args[1])
            b == RoadPath(args[2])
        IN /\ (res.err = "") <=> IsPrefix(b.parts, p.parts)
           /\ res.err = "" =>
                 AsStr(res.op, res.val) =
                     Str([root |-> empty,
                          parts |-> SubSeq(p.parts, Len(b.parts) + 1, Len(p.parts))])

(* the base relative() and relative_to() work with *)
EffectiveBase ==
    IF res.op = "relative" /\ args[2] = empty THEN res.cwd ELSE args[2]

S_b_c == <<"b", "/", "c">>

(* C5 as amended: a value exactly when the components of base are a       *)
(* prefix of the components of the path and, when base has no component   *)
(* (it is empty or "."), the path is relative; relative() works with the  *)
(* current directory in place of an empty base. The value is the rest of  *)
(* the components, and base joined with it is the path again.             *)
C5_RelativeToPrefix ==
    res.op \in RelOps =>
        LET p == RoadPath(args[1])
            b == RoadPath(EffectiveBase)
            rest == [root |-> empty,
                     parts |-> SubSeq(p.parts, Len(b.parts) + 1, Len(p.parts))]
        IN /\ (res.err = "") <=>
                 (IsPrefix(b.parts, p.parts) /\ (b.parts # <<>> \/ ~is_absolute(p)))
           /\ res.err = "" =>
                 /\ res.op = "relative_to" => res.val = rest
                 /\ AsStr(res.op, res.val) = Str(rest)
                 /\ truediv(b, AsStr(res.op, res.val)) = p
           /\ args = <<S_abc, S_abs_a>> =>
                 res.err = "" /\ AsStr(res.op, res.val) = S_b_c
           /\ args = <<S_abc, S_abs_z>> => res.err # ""

(* RoadPath("/a/b/c").relative_to("/a") has returned b/c *)
C5_Witness ==
    /\ res.op = "relative_to"
    /\ args = <<S_abc, S_abs_a>>
    /\ res.err = ""
    /\ Str(res.val) = S_b_c

(* ---------------------- with_name and friends (C6) ------------------- *)

WithOps == {"with_name", "with_stem", "with_suffix"}

(* the name the call asks for *)
NewName ==
    LET p == RoadPath(args[1])
    IN IF res.op = "with_name" THEN args[2]
       ELSE IF res.op = "with_stem" THEN args[2] \o Path_suffix(p)
       ELSE Path_stem(p) \o args[2]

(* the argument is one the primitive accepts *)
ValidArg ==
    IF res.op = "with_suffix"
    THEN /\ ~Contains(args[2], sep)
         /\ args[2] # curdir
         /\ args[2] = empty \/ args[2][1] = "."
    ELSE /\ NewName # empty
         /\ NewName[1] # sep
         /\ NewName[Len(NewName)] # sep
         /\ Len(Significant(Split(NewName))) = 1

(* a name that is one ordinary component *)
PlainName(n) == n # empty /\ n # curdir /\ ~Contains(n, sep)

(* C6 as claimed: the calls fail when the receiver has no name, and for   *)
(* a receiver with a name they return a value with the same parent and    *)
(* the respective component replaced.                                     *)
C6_Original ==
    res.op \in WithOps =>
        LET p == RoadPath(args[1])
        IN /\ Path_name(p) = empty => res.err # ""
           /\ Path_name(p) # empty =>
                 /\ res.err = ""
                 /\ Path_parent(res.val) = Path_parent(p)
                 /\ res.op = "with_name" => Path_name(res.val) = args[2]
                 /\ res.op = "with_stem" => Path_stem(res.val) = args[2]
                 /\ res.op = "with_suffix" => Path_suffix(res.val) = args[2]

(* what a with_name, with_stem or with_suffix call has returned *)
C6_Outcome ==
    res.op \in WithOps =>
        LET p == RoadPath(args[1])
        IN /\ Path_name(p) = empty => res.err # ""
           /\ (res.err = "") <=> (Path_name(p) # empty /\ ValidArg)
           /\ res.err = "" =>
                 /\ res.val = truediv(RoadPath_parent(p), NewName)
                 /\ PlainName(NewName) =>
                       /\ RoadPath_parent(res.val) = RoadPath_parent(p)
                       /\ Path_name(res.val) = NewName

(* C6 as amended: the calls fail when the receiver has no name; for a     *)
(* receiver with a name they fail exactly when the argument is not a      *)
(* valid replacement, and otherwise return the receiver's parent joined   *)
(* with the new name (n, s + old suffix, old stem + x): the same parent   *)
(* and that name whenever the new name is one ordinary component.         *)
C6_WithNameStemSuffix ==
    /\ []C6_Outcome
    /\ [][res'.op \in WithOps => args' = args]_vars

S_dot_a == <<".", "a">>

(* RoadPath("/").with_suffix(".a") has failed: a root has no name *)
C6_Witness ==
    /\ res.op = "with_suffix"
    /\ args = <<<<sep>>, S_dot_a>>
    /\ res.err = "ValueError"

(* ------------------------ dirname / basename (C7) -------------------- *)

(* C7: for every non-empty p, join(dirname(p), basename(p)) normalizes to *)
(* what p normalizes to, and is equal to p as a RoadPath.                 *)
C7_DirnameBasenameRoundTrip ==
    (res.op \in {"dirname", "basename", "split"} /\ args[1] # empty) =>
        LET p == args[1]
            rejoined ==
                IF res.op = "dirname" THEN join(<<res.val, basename(p)>>)
                ELSE IF res.op = "basename" THEN join(<<dirname(p), res.val>>)
                ELSE join(res.val)
        IN /\ normalize(rejoined) = normalize(p)
           /\ RoadPath_eq(RoadPath(rejoined), RoadPath(p))

S_a_up == <<"a", "/", ".", ".">>

(* dirname("a/..") has returned "a": the last component is ".." *)
C7_Witness ==
    /\ res.op = "dirname"
    /\ args = <<S_a_up>>
    /\ res.val = S_a
    /\ basename(args[1]) = pardir

(* ------------------------------ splitext (C8) ------------------------ *)

(* C8: for every path p, splitext(p) returns a pair (root, extension)     *)
(* whose concatenation ends in exactly the final component of p.          *)
C8_SplitextReconstructs ==
    res.op = "splitext" =>
        /\ res.err = ""
        /\ basename(res.val[1] \o res.val[2]) = basename(args[1])

(* --------------------- commonpath / commonprefix (C9) ---------------- *)

Mixed == \E i, j \in 1..Len(args) : IsAbs(args[i]) # IsAbs(args[j])

(* the longest sequence that is a prefix of every member of seqs *)
LongestCommon(seqs) ==
    IF seqs = <<>> THEN <<>>
    ELSE LET K == {k \in 0..Len(seqs[1]) :
                      \A i \in 1..Len(seqs) : IsPrefix(SubSeq(seqs[1], 1, k), seqs[i])}
             kmax == CHOOSE k \in K : \A j \in K : j <= k
         IN SubSeq(seqs[1], 1, kmax)

CommonComponents ==
    LongestCommon([i \in 1..Len(args) |-> Significant(Split(args[i]))])

(* two inputs whose first components differ *)
NoSharedAncestor ==
    \E i, j \in 1..Len(args) :
        LET ci == Significant(Split(args[i]))
            cj == Significant(Split(args[j]))
        IN ci # <<>> /\ cj # <<>> /\ ci[1] # cj[1]

S_ab == <<"/", "a", "b">>

(* C9 as claimed: commonpath returns the longest common ancestor and      *)
(* fails when the inputs mix absolute and relative paths or their first   *)
(* components differ (no shared ancestor); in particular it fails        *)
(* for ["/ab/c", "/abd/e"], where commonprefix returns "/ab".             *)
C9_Original ==
    /\ (res.op = "commonpath" /\ args # <<>>) =>
          /\ (Mixed \/ NoSharedAncestor) => res.err # ""
          /\ (~Mixed /\ ~NoSharedAncestor) =>
                /\ res.err = ""
                /\ res.val = (IF IsAbs(args[1]) THEN <<sep>> ELSE empty)
                                 \o JoinSep(CommonComponents)
    /\ res.op = "commonprefix" => res.val = LongestCommon(args)

(* C9 as amended: commonpath fails exactly when the input is empty or     *)
(* mixes absolute and relative paths; otherwise it returns the longest    *)
(* common sequence of components, which is "/" (absolute inputs) or ""    *)
(* (relative inputs) when no component is shared. commonprefix returns    *)
(* the longest common character prefix. For ["/ab/c", "/abd/e"] that is   *)
(* "/ab", and commonpath returns "/".                                     *)
C9_CommonPathAndPrefix ==
    /\ res.op = "commonpath" =>
          /\ (res.err # "") <=> (args = <<>> \/ Mixed)
          /\ res.err = "" =>
                res.val = (IF IsAbs(args[1]) THEN <<sep>> ELSE empty)
                              \o JoinSep(CommonComponents)
          /\ args = <<S_ab_c, S_abd_e>> => res.val = <<sep>>
    /\ res.op = "commonprefix" =>
          /\ res.val = LongestCommon(args)
          /\ args = <<S_ab_c, S_abd_e>> => res.val = S_ab

(* commonpath(["/ab/c", "/abd/e"]) has returned "/" *)
C9_Witness ==
    /\ res.op = "commonpath"
    /\ args = <<S_ab_c, S_abd_e>>
    /\ res.err = ""
    /\ res.val = <<sep>>
    /\ commonprefix(args) = S_ab

(* ---------------------------- parents (C10) -------------------------- *)

RECURSIVE ParentN(_, _)
ParentN(p, n) == IF n = 0 THEN p ELSE RoadPath_parent(ParentN(p, n - 1))

IsRoot(p) == p.root # empty /\ Len(p.parts) = 1

(* parents[i] is the parent taken i times, and taking the parent reaches  *)
(* its fixed point after exactly len(parents) steps                       *)
AncestorsInOrder(p, ps) ==
    /\ \A i \in 1..Len(ps) : ps[i] = ParentN(p, i)
    /\ RoadPath_parent(ParentN(p, Len(ps))) = ParentN(p, Len(ps))
    /\ \A k \in 0..(Len(ps) - 1) : RoadPath_parent(ParentN(p, k)) # ParentN(p, k)

(* C10 as claimed: parents lists the ancestors nearest first and its last *)
(* element is the root.                                                   *)
C10_Original ==
    /\ res.op = "parents" =>
          /\ AncestorsInOrder(RoadPath(args[1]), res.val)
          /\ Len(res.val) > 0 => IsRoot(res.val[Len(res.val)])
    /\ (res.op = "parent" /\ IsRoot(RoadPath(args[1]))) =>
          res.val = RoadPath(args[1])

(* C10 as amended: parents lists the ancestors nearest first; its last    *)
(* element is the root for an absolute path and the empty path "." for a  *)
(* relative one; the parent of a root or of the empty path is itself.     *)
C10_ParentsNearestFirst ==
    /\ res.op = "parents" =>
          LET p == RoadPath(args[1])
          IN /\ AncestorsInOrder(p, res.val)
             /\ Len(res.val) > 0 =>
                   /\ is_absolute(p) => IsRoot(res.val[Len(res.val)])
                   /\ ~is_absolute(p) => res.val[Len(res.val)] = RoadPath(empty)
    /\ (res.op = "parent"
          /\ (IsRoot(RoadPath(args[1])) \/ RoadPath(args[1]) = RoadPath(empty))) =>
          res.val = RoadPath(args[1])

(* RoadPath("a/b").parents has returned [a, .] *)
C10_Witness ==
    /\ res.op = "parents"
    /\ args = <<S_a_b>>
    /\ Len(res.val) = 2
    /\ res.val[1] = RoadPath(S_a)
    /\ res.val[2] = RoadPath(empty)

====
